---------------------------- MODULE Spec2Model ----------------------------
(***************************************************************************)
(* Model of the AllSignals trading-signal engine (server.py, signal.py,    *)
(* bid.py): the trading-day resolvers, the candle price-point extraction   *)
(* and the gap / direction computation.                                    *)
(*                                                                         *)
(* Dates are day numbers counted from 2024-01-01 (a Monday, day 0).  A     *)
(* datetime is a record [day, hour, minute]; the code never reads seconds. *)
(* A formatted date ("%Y-%m-%d") is the triple <<year, month, day>>, whose *)
(* lexicographic order is the order of the zero-padded strings.            *)
(* Python's None is the empty tuple <<>>, a present value v is <<v>>.      *)
(* Prices are decimals in thousandths (24800.00 is 24800000), so that      *)
(* round(x, 2) is a real rounding step.                                    *)
(***************************************************************************)
EXTENDS Integers, Sequences, FiniteSets, TLC

VARIABLES
    now,        \* datetime.now() of the running request
    bidOut,     \* result of get_trading_days_bid (server.py / signal.py), <<>> before the call
    pgOut,      \* result of get_trading_days_pricegap, <<>> before the call
    bidPyOut,   \* result of bid.py get_trading_days, <<>> before the call
    resp,       \* the candle provider's response: <<>> a failed request, <<candles>> a payload
    ltpOut,     \* <<>> before the call, <<r>> once get_330_ltp returned r
    openOut,    \* <<>> before the call, <<r>> once get_915_open returned r
    px,         \* the fetched price points: ltp_330_prev, open_915_today, ltp_330, daily_close
    bid_data,       \* server.py bid_data, <<>> before it is built, then <<record>>
    pricegap_data,  \* server.py pricegap_data, likewise
    sigBid,         \* what signal.py main prints for the BID section, likewise
    sigPricegap,    \* what signal.py main prints for the PriceGap section, likewise
    bidMain,        \* what bid.py main prints for one instrument, likewise
    raised,         \* TRUE once an exception has left a signal computation
    expiryResp,     \* per instrument, the option-contract response: <<>> failed, <<S>> its expiry strings
    sel,            \* <<>> before, <<r>> once get_nearest_expiry_instrument returned r
    dteTomorrow,    \* per instrument, <<>> before, <<r>> once get_dte_for_instrument_tomorrow returned r
    covIn,          \* inst_dte and spot of one pass of the coverage loop
    covOut,         \* <<>> before the pass, <<e>> after it: e = <<>> nothing appended, <<entry>> the entry
    entry,          \* the entry point running: "server", "signal" or "bid"
    token,          \* what load_access_token returned
    pc,             \* the entry point's position
    calls,          \* the provider calls made so far, in order
    loc,            \* the entry point's locals, each <<>> until assigned
    result          \* <<>> while running, <<r>> once the entry point returned r

resolverVars == <<now, bidOut, pgOut, bidPyOut>>
candleVars == <<resp, ltpOut, openOut>>
signalVars == <<px, bid_data, pricegap_data, sigBid, sigPricegap, bidMain, raised>>
expiryVars == <<expiryResp, sel, dteTomorrow>>
coverageVars == <<covIn, covOut>>
bundleVars == <<entry, token, pc, calls, loc, result>>
laterVars == <<expiryVars, coverageVars, bundleVars>>
vars == <<resolverVars, candleVars, signalVars, laterVars>>

\* The values of the expiry variables while no expiry call is modelled.
ExpiryIdle ==
    /\ expiryResp = <<>>
    /\ sel = <<>>
    /\ dteTomorrow = <<>>

\* The values of the coverage variables while no coverage pass is modelled.
CoverageIdle ==
    /\ covIn = <<>>
    /\ covOut = <<>>

\* The values of the entry-point variables while no entry point is running.
BundleIdle ==
    /\ entry = <<>>
    /\ token = <<>>
    /\ pc = <<>>
    /\ calls = <<>>
    /\ loc = <<>>
    /\ result = <<>>

LaterIdle == ExpiryIdle /\ CoverageIdle /\ BundleIdle

\* Python's None; a present value v is <<v>>.
None == <<>>

(***************************************************************************)
(* Bounds                                                                  *)
(***************************************************************************)
\* Number of consecutive calendar days the wall clock ranges over,
\* starting Monday 2024-02-26 (the window crosses the leap day and a month end).
MaxDays == 7

\* Longest candle list a provider response carries.
MaxCandles == 3

\* Most expiry dates one option-contract response names.
MaxExpiries == 2

Days == 56..(56 + MaxDays - 1)

Clock == [day : Days, hour : 0..23, minute : 0..59]

(***************************************************************************)
(* datetime library behaviour used by the code                             *)
(***************************************************************************)
\* date.weekday(): Monday is 0, Sunday is 6.
Weekday(d) == d % 7

IsLeap(y) == (y % 4 = 0 /\ y % 100 # 0) \/ (y % 400 = 0)

DaysInMonth(y, m) ==
    IF m = 2 THEN (IF IsLeap(y) THEN 29 ELSE 28)
    ELSE IF m \in {4, 6, 9, 11} THEN 30 ELSE 31

RECURSIVE YmdFrom(_, _, _)
YmdFrom(y, m, r) ==
    IF r >= DaysInMonth(y, m)
    THEN IF m = 12 THEN YmdFrom(y + 1, 1, r - DaysInMonth(y, m))
                   ELSE YmdFrom(y, m + 1, r - DaysInMonth(y, m))
    ELSE <<y, m, r + 1>>

\* dt.strftime("%Y-%m-%d") of the date with day number d >= 0.
Strftime(d) == YmdFrom(2024, 1, d)

RECURSIVE DaysBefore(_, _)
DaysBefore(y, m) ==
    IF y = 2024 /\ m = 1 THEN 0
    ELSE IF m = 1 THEN DaysBefore(y - 1, 12) + DaysInMonth(y - 1, 12)
    ELSE DaysBefore(y, m - 1) + DaysInMonth(y, m - 1)

\* datetime.strptime(s, "%Y-%m-%d") as a day number.
Strptime(s) == DaysBefore(s[1], s[2]) + s[3] - 1

(***************************************************************************)
(* Trading-day resolvers                                                   *)
(***************************************************************************)
\* while today.weekday() >= 5: today = today - timedelta(days=1)
RECURSIVE SkipWeekendBackMut(_)
SkipWeekendBackMut(d) == IF Weekday(d) > 5 THEN SkipWeekendBackMut(d - 1) ELSE d

RECURSIVE SkipWeekendBack(_)
SkipWeekendBack(d) == IF Weekday(d) >= 5 THEN SkipWeekendBack(d - 1) ELSE d

IsAfterMarketOpenMut(n) == n.hour >= 9

\* is_after_market_open
IsAfterMarketOpen(n) == n.hour > 9 \/ (n.hour = 9 /\ n.minute >= 15)

IsAfterCloseMut(n) == n.hour >= 15

\* is_after_close
IsAfterClose(n) == n.hour > 15 \/ (n.hour = 15 /\ n.minute >= 30)

PrevTradingDayMut(today) == today - 1

\* prev_day = today - timedelta(days=1), then skip the weekend backwards
PrevTradingDay(today) == SkipWeekendBack(today - 1)

\* server.py / signal.py get_trading_days_bid: (prev_day, today, is_market_open)
get_trading_days_bid(n) ==
    LET today0 == SkipWeekendBack(n.day)
        is_today_trading_day == n.day = today0
        is_market_open == is_today_trading_day /\ IsAfterMarketOpen(n)
        today == IF ~is_market_open THEN SkipWeekendBack(today0 - 1) ELSE today0
        prev_day == PrevTradingDay(today)
    IN  <<Strftime(prev_day), Strftime(today), is_market_open>>

get_trading_days_pricegap_Mut(n) ==
    LET today0 == SkipWeekendBack(n.day)
        is_today_trading_day == n.day = today0
        is_data_available == is_today_trading_day /\ IsAfterClose(n)
        today == IF ~is_data_available
                 THEN SkipWeekendBack(today0 - 1)
                 ELSE today0
    IN  <<Strftime(today), is_data_available>>

\* server.py / signal.py get_trading_days_pricegap: (date, is_data_available)
get_trading_days_pricegap(n) ==
    LET today0 == SkipWeekendBack(n.day)
        is_today_trading_day == n.day = today0
        is_data_available == is_today_trading_day /\ IsAfterClose(n)
        today == IF ~is_data_available
                 THEN SkipWeekendBack(IF is_today_trading_day THEN today0 - 1 ELSE today0)
                 ELSE today0
    IN  <<Strftime(today), is_data_available>>

\* bid.py get_trading_days: (prev_day, today)
get_trading_days(n) ==
    LET shifted == IF n.hour < 9 \/ (n.hour = 9 /\ n.minute < 15)
                   THEN n.day - 1 ELSE n.day
        today == SkipWeekendBack(shifted)
        prev_day == PrevTradingDay(today)
    IN  <<Strftime(prev_day), Strftime(today)>>

(***************************************************************************)
(* The resolver state machine: a request reads the clock and calls the     *)
(* resolvers; results are computed fresh per request and never persisted.  *)
(***************************************************************************)
Init ==
    /\ now \in Clock
    /\ bidOut = <<>>
    /\ pgOut = <<>>
    /\ bidPyOut = <<>>
    /\ resp = <<>>
    /\ ltpOut = <<>>
    /\ openOut = <<>>
    /\ px = <<>>
    /\ bid_data = <<>>
    /\ pricegap_data = <<>>
    /\ sigBid = <<>>
    /\ sigPricegap = <<>>
    /\ bidMain = <<>>
    /\ raised = FALSE
    /\ LaterIdle

CallTradingDaysBid ==
    /\ bidOut = <<>>
    /\ bidOut' = get_trading_days_bid(now)
    /\ UNCHANGED <<now, pgOut, bidPyOut, candleVars, signalVars, laterVars>>

CallTradingDaysPricegap ==
    /\ pgOut = <<>>
    /\ pgOut' = get_trading_days_pricegap(now)
    /\ UNCHANGED <<now, bidOut, bidPyOut, candleVars, signalVars, laterVars>>

CallGetTradingDays ==
    /\ bidPyOut = <<>>
    /\ bidPyOut' = get_trading_days(now)
    /\ UNCHANGED <<now, bidOut, pgOut, candleVars, signalVars, laterVars>>

\* The wall clock moves to the next minute; the next request starts afresh.
Tick ==
    /\ \/ now.minute < 59 /\ now' = [now EXCEPT !.minute = @ + 1]
       \/ now.minute = 59 /\ now.hour < 23
            /\ now' = [now EXCEPT !.minute = 0, !.hour = @ + 1]
       \/ now.minute = 59 /\ now.hour = 23 /\ now.day + 1 \in Days
            /\ now' = [day |-> now.day + 1, hour |-> 0, minute |-> 0]
    /\ bidOut' = <<>>
    /\ pgOut' = <<>>
    /\ bidPyOut' = <<>>
    /\ UNCHANGED <<candleVars, signalVars, laterVars>>

Next ==
    \/ CallTradingDaysBid
    \/ CallTradingDaysPricegap
    \/ CallGetTradingDays
    \/ Tick

Spec == Init /\ [][Next]_vars

(***************************************************************************)
(* Price-point extraction from minute candles                              *)
(*                                                                         *)
(* A candle is the list [timestamp, open, high, low, close, volume] of the *)
(* provider's payload, possibly cut short.  Its timestamp is <<hour,       *)
(* minute>> when datetime.fromisoformat parses it and <<>> when it raises. *)
(***************************************************************************)
\* Clock times of the candles in a feed.
CandleTimes ==
    {<<9, 15>>, <<14, 59>>, <<15, 25>>, <<15, 29>>, <<15, 30>>, <<15, 31>>, <<16, 5>>}

\* (open, close) of a candle.
CandlePrices == {<<24800000, 24850000>>, <<24900000, 24750000>>}

Max2(a, b) == IF a >= b THEN a ELSE b
Min2(a, b) == IF a <= b THEN a ELSE b

FullCandle(ts, oc) ==
    <<ts, oc[1], Max2(oc[1], oc[2]), Min2(oc[1], oc[2]), oc[2], 0>>

WellFormedCandles == {FullCandle(ts, oc) : ts \in CandleTimes, oc \in CandlePrices}

\* Records with an unparseable timestamp or with fields missing.
MalformedCandles ==
    {FullCandle(<<>>, <<24700000, 24700000>>), <<>>}
        \cup {<<ts>> : ts \in {<<9, 15>>, <<15, 29>>}}
        \cup {<<<<15, 29>>, 24600000>>}

Candles == WellFormedCandles \cup MalformedCandles

CandleLists == UNION {[1..n -> Candles] : n \in 0..MaxCandles}

\* The outcome of `dt = datetime.fromisoformat(candle[0]...)`: <<hour, minute>>,
\* or <<>> when the statement raises (no candle[0], or an unparseable string).
ParseTime(candle) == IF Len(candle) = 0 THEN <<>> ELSE candle[1]

\* Python's tuple comparison (hour, minute) > best_time.
TupleGreater(a, b) == a[1] > b[1] \/ (a[1] = b[1] /\ a[2] > b[2])

IsBefore330Mut(t) == (t[1] = 15 /\ t[2] <= 30) \/ t[1] < 15

\* hour == 15 and minute <= 29, or hour < 15
IsBefore330(t) == (t[1] = 15 /\ t[2] <= 29) \/ t[1] < 15

\* The loop of get_330_ltp from candle i on; best is <<best_time, best_candle>>,
\* <<>> while both are None.
RECURSIVE Scan330(_, _, _)
Scan330(candles, i, best) ==
    IF i > Len(candles) THEN best
    ELSE LET t == ParseTime(candles[i])
         IN  IF t = <<>> THEN Scan330(candles, i + 1, best)
             ELSE IF IsBefore330(t) /\ (best = <<>> \/ TupleGreater(t, best[1]))
                  THEN Scan330(candles, i + 1, <<t, candles[i]>>)
                  ELSE Scan330(candles, i + 1, best)

\* get_330_ltp on the provider's response r.  best_candle[4] raises IndexError on
\* a candle cut short, which the outer except turns into None.
get_330_ltp(r) ==
    IF r = <<>> THEN None
    ELSE LET best == Scan330(r[1], 1, <<>>)
         IN  IF best = <<>> THEN None
             ELSE IF Len(best[2]) < 5 THEN None
             ELSE <<best[2][5]>>

\* The loop of get_915_open from candle i on: candle[1] raising IndexError is
\* caught inside the loop and the scan continues.
RECURSIVE Scan915(_, _)
Scan915(candles, i) ==
    IF i > Len(candles) THEN None
    ELSE LET t == ParseTime(candles[i])
         IN  IF t # <<>> /\ t[1] = 9 /\ t[2] = 15 /\ Len(candles[i]) >= 2
             THEN <<candles[i][2]>>
             ELSE Scan915(candles, i + 1)

\* get_915_open on the provider's response r.
get_915_open(r) == IF r = <<>> THEN None ELSE Scan915(r[1], 1)

InitCandles ==
    /\ now = [day |-> 56, hour |-> 16, minute |-> 0]
    /\ bidOut = <<>>
    /\ pgOut = <<>>
    /\ bidPyOut = <<>>
    /\ resp \in {<<>>} \cup {<<cs>> : cs \in CandleLists}
    /\ ltpOut = <<>>
    /\ openOut = <<>>
    /\ px = <<>>
    /\ bid_data = <<>>
    /\ pricegap_data = <<>>
    /\ sigBid = <<>>
    /\ sigPricegap = <<>>
    /\ bidMain = <<>>
    /\ raised = FALSE
    /\ LaterIdle

CallGet330Ltp ==
    /\ ltpOut = <<>>
    /\ ltpOut' = <<get_330_ltp(resp)>>
    /\ UNCHANGED <<resolverVars, resp, openOut, signalVars, laterVars>>

CallGet915Open ==
    /\ openOut = <<>>
    /\ openOut' = <<get_915_open(resp)>>
    /\ UNCHANGED <<resolverVars, resp, ltpOut, signalVars, laterVars>>

NextCandles ==
    \/ CallGet330Ltp
    \/ CallGet915Open

SpecCandles == InitCandles /\ [][NextCandles]_vars

(***************************************************************************)
(* Gap, percentage and direction                                           *)
(***************************************************************************)
\* Price points a provider can hand back (thousandths); 0 is a present value.
SignalPrices == {0, 24800000, 24850000, 24850004}

OptionalPrices == {None} \cup {<<v>> : v \in SignalPrices}

TruthyMut(x) == x # None

\* Python's truth test of an optional number: None and 0 are both false.
Truthy(x) == x # None /\ x[1] # 0

\* n / d rounded to the nearest integer, halves to the even one (d # 0).
RoundDiv(n, d) ==
    LET nn == IF d < 0 THEN -n ELSE n
        dd == IF d < 0 THEN -d ELSE d
        q == nn \div dd
        r == nn % dd
    IN  IF 2 * r < dd THEN q
        ELSE IF 2 * r > dd THEN q + 1
        ELSE IF q % 2 = 0 THEN q ELSE q + 1

\* round(x, 2) of a decimal held in thousandths.
Round2(x) == RoundDiv(x, 10) * 10

GapPctMut(gap, base) == RoundDiv(gap * 100, base)

\* round((gap / base) * 100, 2), in hundredths of a percent (base # 0).
GapPct(gap, base) == RoundDiv(gap * 10000, base)

DirectionMut(gap) == IF gap >= 0 THEN "up" ELSE IF gap < 0 THEN "down" ELSE "flat"

\* server.py: "up" if gap > 0 else "down" if gap < 0 else "flat"
Direction(gap) == IF gap > 0 THEN "up" ELSE IF gap < 0 THEN "down" ELSE "flat"

\* The ZeroDivisionError of gap / base in a computation guarded by `a and b`.
GapRaises(base, other) == Truthy(base) /\ Truthy(other) /\ base[1] = 0

\* server.py get_all_signal_data, BID signal: bid_data from the two price points
\* and the resolved days.
BidData(ltp_330_prev, open_915_today, days) ==
    LET ok == Truthy(ltp_330_prev) /\ Truthy(open_915_today)
        gap == Round2(open_915_today[1] - ltp_330_prev[1])
    IN  [ltp_330 |-> ltp_330_prev,
         open_915 |-> open_915_today,
         gap |-> IF ok THEN <<gap>> ELSE None,
         gap_pct |-> IF ok THEN <<GapPct(gap, ltp_330_prev[1])>> ELSE None,
         direction |-> IF ok THEN <<Direction(gap)>> ELSE None,
         prev_date |-> days[1],
         today_date |-> days[2],
         market_open |-> days[3]]

\* server.py get_all_signal_data, PriceGap signal: pricegap_data.
PricegapData(ltp_330, daily_close, day) ==
    LET ok == Truthy(ltp_330) /\ Truthy(daily_close)
        gap == Round2(ltp_330[1] - daily_close[1])
    IN  [ltp_330 |-> ltp_330,
         daily_close |-> daily_close,
         gap |-> IF ok THEN <<gap>> ELSE None,
         gap_pct |-> IF ok THEN <<GapPct(gap, daily_close[1])>> ELSE None,
         direction |-> IF ok THEN <<Direction(gap)>> ELSE None,
         date |-> day[1]]

\* signal.py format_gap: (color, arrow, direction, (gap, gap_pct) as printed).
format_gap(gap, base) ==
    LET gap_pct == IF base # 0 THEN GapPct(gap, base) ELSE 0
    IN  IF gap > 0 THEN <<"GREEN", "^", "Up", <<gap, gap_pct>>>>
        ELSE IF gap < 0 THEN <<"RED", "v", "Down", <<gap, gap_pct>>>>
        ELSE <<"YELLOW", "-", "Flat", <<gap, gap_pct>>>>

\* signal.py main, one gap section (BID: later = 9:15 open, base = previous 3:30
\* LTP; PriceGap: later = 3:30 LTP, base = daily close): the lines printed.
SignalSection(base, later, unavailable) ==
    IF Truthy(base) /\ Truthy(later)
    THEN LET f == format_gap(Round2(later[1] - base[1]), base[1])
         IN  [gap |-> <<f[4][1]>>, gap_pct |-> <<f[4][2]>>,
              direction |-> <<f[3]>>, note |-> ""]
    ELSE [gap |-> None, gap_pct |-> None, direction |-> None, note |-> unavailable]

\* bid.py main, the body of the loop for one instrument: the lines printed.
BidMainLines(ltp_330, open_915) ==
    IF Truthy(ltp_330) /\ Truthy(open_915)
    THEN LET gap == Round2(open_915[1] - ltp_330[1])
         IN  [gap |-> <<gap>>, gap_pct |-> <<GapPct(gap, ltp_330[1])>>,
              direction |-> <<IF gap > 0 THEN "Gap Up"
                              ELSE IF gap < 0 THEN "Gap Down" ELSE "Flat">>,
              note |-> ""]
    ELSE [gap |-> None, gap_pct |-> None, direction |-> None, note |-> "No Data"]

InitSignal ==
    /\ now = [day |-> 56, hour |-> 16, minute |-> 0]
    /\ bidOut = <<>>
    /\ pgOut = <<>>
    /\ bidPyOut = <<>>
    /\ resp = <<>>
    /\ ltpOut = <<>>
    /\ openOut = <<>>
    /\ px \in [ltp_330_prev : OptionalPrices, open_915_today : OptionalPrices,
               ltp_330 : OptionalPrices, daily_close : OptionalPrices]
    /\ bid_data = <<>>
    /\ pricegap_data = <<>>
    /\ sigBid = <<>>
    /\ sigPricegap = <<>>
    /\ bidMain = <<>>
    /\ raised = FALSE
    /\ LaterIdle

ServerBidSignal ==
    /\ bid_data = <<>> /\ ~raised
    /\ IF GapRaises(px.ltp_330_prev, px.open_915_today)
       THEN raised' = TRUE /\ UNCHANGED bid_data
       ELSE /\ bid_data' = <<BidData(px.ltp_330_prev, px.open_915_today,
                                     get_trading_days_bid(now))>>
            /\ UNCHANGED raised
    /\ UNCHANGED <<laterVars, resolverVars, candleVars, px, pricegap_data, sigBid, sigPricegap, bidMain>>

ServerPricegapSignal ==
    /\ pricegap_data = <<>> /\ ~raised
    /\ IF GapRaises(px.daily_close, px.ltp_330)
       THEN raised' = TRUE /\ UNCHANGED pricegap_data
       ELSE /\ pricegap_data' = <<PricegapData(px.ltp_330, px.daily_close,
                                               get_trading_days_pricegap(now))>>
            /\ UNCHANGED raised
    /\ UNCHANGED <<laterVars, resolverVars, candleVars, px, bid_data, sigBid, sigPricegap, bidMain>>

SignalMainBid ==
    /\ sigBid = <<>> /\ ~raised
    /\ sigBid' = <<SignalSection(px.ltp_330_prev, px.open_915_today,
                                 IF get_trading_days_bid(now)[3]
                                 THEN "Data not available" ELSE "Market not open yet")>>
    /\ UNCHANGED <<laterVars, resolverVars, candleVars, px, bid_data, pricegap_data, sigPricegap,
                   bidMain, raised>>

SignalMainPricegap ==
    /\ sigPricegap = <<>> /\ ~raised
    /\ sigPricegap' = <<SignalSection(px.daily_close, px.ltp_330, "Data not available")>>
    /\ UNCHANGED <<laterVars, resolverVars, candleVars, px, bid_data, pricegap_data, sigBid,
                   bidMain, raised>>

BidMainInstrument ==
    /\ bidMain = <<>> /\ ~raised
    /\ IF GapRaises(px.ltp_330_prev, px.open_915_today)
       THEN raised' = TRUE /\ UNCHANGED bidMain
       ELSE /\ bidMain' = <<BidMainLines(px.ltp_330_prev, px.open_915_today)>>
            /\ UNCHANGED raised
    /\ UNCHANGED <<laterVars, resolverVars, candleVars, px, bid_data, pricegap_data, sigBid, sigPricegap>>

NextSignal ==
    \/ ServerBidSignal
    \/ ServerPricegapSignal
    \/ SignalMainBid
    \/ SignalMainPricegap
    \/ BidMainInstrument

SpecSignal == InitSignal /\ [][NextSignal]_vars

(***************************************************************************)
(* Expiry selection                                                        *)
(***************************************************************************)
INSTRUMENTS == {"NIFTY", "SENSEX"}

\* Expiry strings an option-contract response can name: Thu 2024-02-22 (past),
\* Tue 02-27, Thu 02-29, Fri 03-01, Tue 03-05, Thu 03-07, and "2024-02-30",
\* which strptime rejects.
ExpiryStrings ==
    {<<2024, 2, 22>>, <<2024, 2, 27>>, <<2024, 2, 29>>, <<2024, 2, 30>>,
     <<2024, 3, 1>>, <<2024, 3, 5>>, <<2024, 3, 7>>}

ExpiryResponses ==
    {<<>>} \cup {<<S>> : S \in {T \in SUBSET ExpiryStrings : Cardinality(T) <= MaxExpiries}}

\* Python's string order on "%Y-%m-%d" strings.
StrLess(a, b) ==
    \/ a[1] < b[1]
    \/ a[1] = b[1] /\ a[2] < b[2]
    \/ a[1] = b[1] /\ a[2] = b[2] /\ a[3] < b[3]

\* sorted(set(...))
RECURSIVE Sorted(_)
Sorted(S) ==
    IF S = {} THEN <<>>
    ELSE LET m == CHOOSE x \in S : \A y \in S \ {x} : StrLess(x, y)
         IN  <<m>> \o Sorted(S \ {m})

\* get_expiry_dates on the provider's response r: [] when the request fails.
get_expiry_dates(r) == IF r = <<>> THEN <<>> ELSE Sorted(r[1])

\* Whether datetime.strptime(s, "%Y-%m-%d") accepts s.
IsDate(s) == s[2] \in 1..12 /\ s[3] \in 1..DaysInMonth(s[1], s[2])

\* calculate_dte: (expiry - today).days, 999 when the string does not parse.
calculate_dte(expiry_date, today) ==
    IF IsDate(expiry_date) THEN Strptime(expiry_date) - today ELSE 999

InWindowMut(instrument, dte) == 0 <= dte /\ dte <= 2

\* 0 <= dte <= 2 for NIFTY, 0 <= dte <= 1 for SENSEX
InWindow(instrument, dte) ==
    IF instrument = "NIFTY" THEN 0 <= dte /\ dte <= 2 ELSE 0 <= dte /\ dte <= 1

RECURSIVE FirstInWindowMut(_, _, _, _)
FirstInWindowMut(instrument, expiries, i, today) ==
    IF i > Len(expiries) THEN <<999, None>>
    ELSE IF calculate_dte(expiries[i], today) \in 0..3
         THEN <<calculate_dte(expiries[i], today), <<expiries[i]>>>>
         ELSE FirstInWindowMut(instrument, expiries, i + 1, today)

\* The loop over one instrument's expiries from index i on: <<dte, expiry>> of the
\* first one in the window, <<999, None>> when the loop ends without a break.
RECURSIVE FirstInWindow(_, _, _, _)
FirstInWindow(instrument, expiries, i, today) ==
    IF i > Len(expiries) THEN <<999, None>>
    ELSE IF InWindow(instrument, calculate_dte(expiries[i], today))
         THEN <<calculate_dte(expiries[i], today), <<expiries[i]>>>>
         ELSE FirstInWindow(instrument, expiries, i + 1, today)

ChooseInstrumentMut(n, x) ==
    IF n[1] < x[1] /\ n[2] # None THEN <<<<"NIFTY">>, n[2], <<n[1]>>>>
    ELSE IF x[2] # None THEN <<<<"SENSEX">>, x[2], <<x[1]>>>>
    ELSE IF n[2] # None THEN <<<<"NIFTY">>, n[2], <<n[1]>>>>
    ELSE <<None, None, None>>

\* The final choice between n = <<nifty_dte, nifty_expiry>> and
\* x = <<sensex_dte, sensex_expiry>>: (instrument, expiry, dte).
ChooseInstrument(n, x) ==
    IF n[1] <= x[1] /\ n[2] # None THEN <<<<"NIFTY">>, n[2], <<n[1]>>>>
    ELSE IF x[2] # None THEN <<<<"SENSEX">>, x[2], <<x[1]>>>>
    ELSE IF n[2] # None THEN <<<<"NIFTY">>, n[2], <<n[1]>>>>
    ELSE <<None, None, None>>

\* get_nearest_expiry_instrument, given the two expiry lists and today (midnight).
get_nearest_expiry_instrument(nifty_expiries, sensex_expiries, today) ==
    ChooseInstrument(FirstInWindow("NIFTY", nifty_expiries, 1, today),
                     FirstInWindow("SENSEX", sensex_expiries, 1, today))

RECURSIVE SkipWeekendForward(_)
SkipWeekendForward(d) == IF Weekday(d) >= 5 THEN SkipWeekendForward(d + 1) ELSE d

\* get_next_trading_day: tomorrow, moved past a weekend.
get_next_trading_day(n) == SkipWeekendForward(n.day + 1)

\* The loop of get_dte_for_instrument_tomorrow from index i on.
RECURSIVE FirstFromTomorrow(_, _, _)
FirstFromTomorrow(expiries, i, next_trading_day) ==
    IF i > Len(expiries) THEN <<None, None, None>>
    ELSE IF calculate_dte(expiries[i], next_trading_day) >= 0
         THEN <<<<calculate_dte(expiries[i], next_trading_day)>>, <<expiries[i]>>,
                <<Strftime(next_trading_day)>>>>
         ELSE FirstFromTomorrow(expiries, i + 1, next_trading_day)

\* get_dte_for_instrument_tomorrow on the instrument's expiry list.
get_dte_for_instrument_tomorrow(expiries, n) ==
    FirstFromTomorrow(expiries, 1, get_next_trading_day(n))

InitExpiry ==
    /\ now \in [day : Days, hour : {10}, minute : {0}]
    /\ bidOut = <<>>
    /\ pgOut = <<>>
    /\ bidPyOut = <<>>
    /\ resp = <<>>
    /\ ltpOut = <<>>
    /\ openOut = <<>>
    /\ px = <<>>
    /\ bid_data = <<>>
    /\ pricegap_data = <<>>
    /\ sigBid = <<>>
    /\ sigPricegap = <<>>
    /\ bidMain = <<>>
    /\ raised = FALSE
    /\ expiryResp \in [INSTRUMENTS -> ExpiryResponses]
    /\ sel = <<>>
    /\ dteTomorrow = [i \in INSTRUMENTS |-> <<>>]
    /\ CoverageIdle
    /\ BundleIdle

CallNearestExpiry ==
    /\ sel = <<>>
    /\ sel' = <<get_nearest_expiry_instrument(get_expiry_dates(expiryResp["NIFTY"]),
                                              get_expiry_dates(expiryResp["SENSEX"]),
                                              now.day)>>
    /\ UNCHANGED <<resolverVars, candleVars, signalVars, coverageVars, bundleVars, expiryResp, dteTomorrow>>

CallDteTomorrow ==
    \E inst \in INSTRUMENTS :
        /\ dteTomorrow[inst] = <<>>
        /\ dteTomorrow' = [dteTomorrow EXCEPT ![inst] =
               <<get_dte_for_instrument_tomorrow(get_expiry_dates(expiryResp[inst]), now)>>]
        /\ UNCHANGED <<resolverVars, candleVars, signalVars, coverageVars, bundleVars, expiryResp, sel>>

NextExpiry ==
    \/ CallNearestExpiry
    \/ CallDteTomorrow

SpecExpiry == InitExpiry /\ [][NextExpiry]_vars

(***************************************************************************)
(* Coverage premium                                                        *)
(***************************************************************************)
MaxDte == 9

\* Spot prices in hundredths: get_spot_price rounds them to two decimals.
SpotPrices == {0, 2481235, 2500000, 8123456}

\* PREMIUM_PCT in hundredths of a percent, for DTE 0..4 at index DTE + 1.
PREMIUM_PCT == <<54, 81, 105, 120, 138>>

PremiumPctMut(inst_dte) ==
    IF inst_dte \in 0..3 THEN PREMIUM_PCT[inst_dte + 1] ELSE 54

\* PREMIUM_PCT.get(inst_dte, 0.54)
PremiumPct(inst_dte) ==
    IF inst_dte \in 0..4 THEN PREMIUM_PCT[inst_dte + 1] ELSE 54

\* round(spot * pct / 100, 2), in hundredths.
Premium(spot, pct) == RoundDiv(spot * pct, 10000)

\* The entry one instrument adds to the coverage list.
CoverageRow(inst, inst_dte, spot) ==
    [name |-> inst, dte |-> inst_dte, spot |-> spot, pct |-> PremiumPct(inst_dte),
     premium |-> Premium(spot, PremiumPct(inst_dte))]

\* One pass of server.py's coverage loop: the entries it appends.
CoverageEntry(inst, inst_dte, spot) ==
    IF inst_dte # None /\ Truthy(spot)
    THEN <<CoverageRow(inst, inst_dte[1], spot[1])>>
    ELSE <<>>

\* One pass of signal.py's coverage loop: the rows it prints with a premium.
PrintCoverageRow(inst, inst_dte, spot) ==
    IF inst_dte = None THEN <<>>
    ELSE IF spot = None THEN <<>>
    ELSE <<CoverageRow(inst, inst_dte[1], spot[1])>>

InitCoverage ==
    /\ now = [day |-> 56, hour |-> 16, minute |-> 0]
    /\ bidOut = <<>>
    /\ pgOut = <<>>
    /\ bidPyOut = <<>>
    /\ resp = <<>>
    /\ ltpOut = <<>>
    /\ openOut = <<>>
    /\ px = <<>>
    /\ bid_data = <<>>
    /\ pricegap_data = <<>>
    /\ sigBid = <<>>
    /\ sigPricegap = <<>>
    /\ bidMain = <<>>
    /\ raised = FALSE
    /\ ExpiryIdle
    /\ BundleIdle
    /\ covIn \in [inst : INSTRUMENTS,
                  inst_dte : {None} \cup {<<d>> : d \in 0..MaxDte} \cup {<<999>>},
                  spot : {None} \cup {<<p>> : p \in SpotPrices}]
    /\ covOut = <<>>

ServerCoveragePass ==
    /\ covOut = <<>>
    /\ covOut' = <<CoverageEntry(covIn.inst, covIn.inst_dte, covIn.spot)>>
    /\ UNCHANGED <<resolverVars, candleVars, signalVars, expiryVars, bundleVars, covIn>>

NextCoverage == ServerCoveragePass

SpecCoverage == InitCoverage /\ [][NextCoverage]_vars

(***************************************************************************)
(* The entry points: server.py get_all_signal_data, signal.py main and      *)
(* bid.py main, one provider call after the other                           *)
(***************************************************************************)
ENTRIES == {"server", "signal", "bid"}

\* What load_access_token can return: None, an empty string, a token.
Tokens == {None, <<"">>, <<"tok">>}

HasTokenMut(t) == t # None

\* The negation of `not access_token`.
HasToken(t) == t # None /\ t[1] # ""

\* Option-contract responses of one run: a failed request, the Tuesday
\* expiries 2024-02-27 and 03-05, the Thursday expiries 02-29 and 03-07.
RunExpiryResponses ==
    {<<>>, <<{<<2024, 2, 27>>, <<2024, 3, 5>>}>>, <<{<<2024, 2, 29>>, <<2024, 3, 7>>}>>}

\* Responses to get_dte_for_instrument_tomorrow's own option-contract request.
CoverageExpiryResponses == {<<>>, <<{<<2024, 2, 29>>, <<2024, 3, 7>>}>>}

\* Intraday candle responses of one run: a failed request or a day's candles.
RunCandleResponses ==
    {<<>>,
     <<<<FullCandle(<<15, 29>>, <<24790000, 24800000>>),
         FullCandle(<<9, 15>>, <<24850000, 24860000>>)>>>>}

\* What get_daily_close returns: None on an exception or an empty history.
DailyCloses == {None, <<24850004>>}

\* What get_spot_price returns, in hundredths.
Spots == {None, <<0>>, <<2500000>>}

\* The history get_sixth_sense_data receives: <<>> when the request raises,
\* else rows of (day, Open, Close).
SixthSenseResponses ==
    {<<>>, <<<<>>>>,
     <<<<[day |-> 53, open |-> 24800000, close |-> 24850000],
         [day |-> 56, open |-> 24850000, close |-> 24800000]>>>>}

\* get_sixth_sense_data on the history r: [] on a failure or an empty frame.
get_sixth_sense_data(r) ==
    IF r = <<>> THEN <<>>
    ELSE [i \in 1..Len(r[1]) |->
            [date |-> Strftime(r[1][i].day),
             open |-> Round2(r[1][i].open),
             close |-> Round2(r[1][i].close),
             change |-> GapPct(r[1][i].close - r[1][i].open, r[1][i].open)]]

TradingDayDteMut(dte) == dte

\* trading_day_dte = max(0, dte - 1)
TradingDayDte(dte) == Max2(0, dte - 1)

\* The locals of an entry point before any of them is assigned.
NoLocals ==
    [lists |-> <<>>, sel |-> <<>>, header |-> <<>>, bid |-> <<>>, pricegap |-> <<>>,
     sixthsense |-> <<>>, seen |-> <<>>, coverage |-> <<>>, lines |-> <<>>]

\* What an entry point returns or prints: an error text or its data.
Failure(text) == <<[error |-> <<text>>, data |-> None]>>
Success(data) == <<[error |-> None, data |-> <<data>>]>>

InitRun ==
    /\ now \in [day : Days, hour : {16}, minute : {0}]
    /\ bidOut = <<>>
    /\ pgOut = <<>>
    /\ bidPyOut = <<>>
    /\ resp = <<>>
    /\ ltpOut = <<>>
    /\ openOut = <<>>
    /\ px = <<>>
    /\ bid_data = <<>>
    /\ pricegap_data = <<>>
    /\ sigBid = <<>>
    /\ sigPricegap = <<>>
    /\ bidMain = <<>>
    /\ raised = FALSE
    /\ ExpiryIdle
    /\ CoverageIdle
    /\ entry \in {<<e>> : e \in ENTRIES}
    /\ token \in {<<t>> : t \in Tokens}
    /\ pc = <<"token">>
    /\ calls = <<>>
    /\ loc = NoLocals
    /\ result = <<>>

runOthers == <<resolverVars, candleVars, signalVars, expiryVars, coverageVars>>

\* access_token = load_access_token(); if not access_token: report and return.
LoadToken ==
    /\ pc = <<"token">>
    /\ IF HasToken(token[1])
       THEN /\ pc' = IF entry = <<"bid">> THEN <<"bidpy">> ELSE <<"select">>
            /\ UNCHANGED result
       ELSE /\ pc' = <<"done">>
            /\ result' = Failure("No access token found")
    /\ UNCHANGED <<runOthers, entry, token, calls, loc>>

\* instrument, expiry_date, dte = get_nearest_expiry_instrument(access_token);
\* if not instrument: report and return.  signal.py main then prints the header.
SelectExpiry ==
    /\ pc = <<"select">>
    /\ \E rn \in RunExpiryResponses, rs \in RunExpiryResponses :
        LET ne == get_expiry_dates(rn)
            se == get_expiry_dates(rs)
            s == get_nearest_expiry_instrument(ne, se, now.day)
        IN  /\ calls' = calls \o <<"expiry", "expiry">>
            /\ IF s[1] = None
               THEN /\ pc' = <<"done">>
                    /\ result' = Failure("No valid expiry found")
                    /\ loc' = [loc EXCEPT !.lists = <<ne, se>>, !.sel = <<s>>]
               ELSE /\ pc' = <<"bid">>
                    /\ UNCHANGED result
                    /\ loc' = [loc EXCEPT !.lists = <<ne, se>>, !.sel = <<s>>,
                                          !.header = IF entry = <<"signal">>
                                                     THEN <<TradingDayDte(s[3][1])>>
                                                     ELSE <<>>]
    /\ UNCHANGED <<runOthers, entry, token>>

\* The BID signal: two candle requests, then bid_data (server.py) or the
\* printed section (signal.py).
BidSignal ==
    /\ pc = <<"bid">>
    /\ \E r1 \in RunCandleResponses, r2 \in RunCandleResponses :
        LET days == get_trading_days_bid(now)
            ltp_330_prev == get_330_ltp(r1)
            open_915_today == get_915_open(r2)
        IN  /\ calls' = calls \o <<"candle", "candle">>
            /\ loc' = [loc EXCEPT !.bid =
                   IF entry = <<"server">>
                   THEN <<BidData(ltp_330_prev, open_915_today, days)>>
                   ELSE <<SignalSection(ltp_330_prev, open_915_today,
                                        IF days[3] THEN "Data not available"
                                        ELSE "Market not open yet")>>]
    /\ pc' = <<"pricegap">>
    /\ UNCHANGED <<runOthers, entry, token, result>>

\* The PriceGap signal: a candle request and the daily close.
PricegapSignal ==
    /\ pc = <<"pricegap">>
    /\ \E r \in RunCandleResponses, daily_close \in DailyCloses :
        LET ltp_330 == get_330_ltp(r)
        IN  /\ calls' = calls \o <<"candle", "daily_close">>
            /\ loc' = [loc EXCEPT !.pricegap =
                   IF entry = <<"server">>
                   THEN <<PricegapData(ltp_330, daily_close, get_trading_days_pricegap(now))>>
                   ELSE <<SignalSection(daily_close, ltp_330, "Data not available")>>]
    /\ pc' = <<"sixth">>
    /\ UNCHANGED <<runOthers, entry, token, result>>

\* sixth_sense_data = get_sixth_sense_data(instrument, days=5)
SixthSense ==
    /\ pc = <<"sixth">>
    /\ \E r \in SixthSenseResponses :
        /\ calls' = calls \o <<"sixth_sense">>
        /\ loc' = [loc EXCEPT !.sixthsense = <<get_sixth_sense_data(r)>>]
    /\ pc' = <<"coverage", "NIFTY">>
    /\ UNCHANGED <<runOthers, entry, token, result>>

\* One pass of the coverage loop.  server.py asks for the spot price in every
\* pass; signal.py leaves the pass before asking when there is no DTE.
CoverageLoop ==
    \E inst \in INSTRUMENTS :
        /\ pc = <<"coverage", inst>>
        /\ \E re \in CoverageExpiryResponses, spot \in Spots :
            LET inst_dte == get_dte_for_instrument_tomorrow(get_expiry_dates(re), now)[1]
                asked == entry = <<"server">> \/ inst_dte # None
            IN  /\ calls' = calls \o (IF asked THEN <<"expiry", "spot">> ELSE <<"expiry">>)
                /\ loc' = [loc EXCEPT
                       !.seen = @ \o <<[name |-> inst, dte |-> inst_dte,
                                        spot |-> IF asked THEN spot ELSE None]>>,
                       !.coverage = @ \o (IF entry = <<"server">>
                                          THEN CoverageEntry(inst, inst_dte, spot)
                                          ELSE PrintCoverageRow(inst, inst_dte, spot))]
        /\ pc' = IF inst = "NIFTY" THEN <<"coverage", "SENSEX">> ELSE <<"return">>
        /\ UNCHANGED <<runOthers, entry, token, result>>

BundleMut ==
    [instrument |-> loc.sel[1][1][1],
     expiry_date |-> loc.sel[1][2][1],
     dte |-> IF entry = <<"server">> THEN TradingDayDte(loc.sel[1][3][1]) ELSE loc.header[1],
     timestamp |-> now,
     bid |-> loc.bid[1],
     pricegap |-> IF loc.bid[1].gap = None
                  THEN [loc.pricegap[1] EXCEPT !.gap = None, !.gap_pct = None,
                                               !.direction = None]
                  ELSE loc.pricegap[1],
     sixthsense |-> loc.sixthsense[1],
     coverage |-> [date |-> get_next_trading_day(now), instruments |-> loc.coverage]]

\* The bundle get_all_signal_data returns; for signal.py main, what it printed.
Bundle ==
    [instrument |-> loc.sel[1][1][1],
     expiry_date |-> loc.sel[1][2][1],
     dte |-> IF entry = <<"server">> THEN TradingDayDte(loc.sel[1][3][1]) ELSE loc.header[1],
     timestamp |-> now,
     bid |-> loc.bid[1],
     pricegap |-> loc.pricegap[1],
     sixthsense |-> loc.sixthsense[1],
     coverage |-> [date |-> get_next_trading_day(now), instruments |-> loc.coverage]]

ReturnBundle ==
    /\ pc = <<"return">>
    /\ pc' = <<"done">>
    /\ result' = Success(Bundle)
    /\ UNCHANGED <<runOthers, entry, token, calls, loc>>

\* The names of bid.py's INSTRUMENTS, in the order of the dict.
BidPyInstruments == <<"NIFTY 50", "BANK NIFTY", "SENSEX">>

\* bid.py main: get_trading_days, then one pass of the loop per instrument.
BidPyLoop ==
    /\ pc = <<"bidpy">>
    /\ \E r1 \in RunCandleResponses, r2 \in RunCandleResponses :
        LET line == BidMainLines(get_330_ltp(r1), get_915_open(r2))
            lines == loc.lines \o <<line>>
        IN  /\ calls' = calls \o <<"candle", "candle">>
            /\ loc' = [loc EXCEPT !.lines = lines]
            /\ IF Len(lines) = Len(BidPyInstruments)
               THEN /\ pc' = <<"done">>
                    /\ result' = Success([days |-> get_trading_days(now), lines |-> lines])
               ELSE UNCHANGED <<pc, result>>
    /\ UNCHANGED <<runOthers, entry, token>>

NextRun ==
    \/ LoadToken
    \/ SelectExpiry
    \/ BidSignal
    \/ PricegapSignal
    \/ SixthSense
    \/ CoverageLoop
    \/ ReturnBundle
    \/ BidPyLoop

SpecRun == InitRun /\ [][NextRun]_vars

\* Every provider call returns, with a result or a failure, so a running entry
\* point takes its next step.
SpecRunLive == SpecRun /\ WF_vars(NextRun)

(***************************************************************************)
(* Vocabulary of the resolver claims                                       *)
(***************************************************************************)
\* Minutes elapsed since 2024-01-01 00:00 at hour:minute of day d.
At(d, h, m) == (d * 24 + h) * 60 + m

NowMinutes == At(now.day, now.hour, now.minute)

IsWeekday(d) == Weekday(d) \in 0..4

BidPrev == Strptime(bidOut[1])
BidToday == Strptime(bidOut[2])
PgDate == Strptime(pgOut[1])
BidPyPrev == Strptime(bidPyOut[1])
BidPyToday == Strptime(bidPyOut[2])

\* The most recent Mon-Fri date whose h:m is at or before now.
LastWeekdayReached(h, m) ==
    CHOOSE D \in (now.day - 7)..now.day :
        /\ IsWeekday(D) /\ At(D, h, m) <= NowMinutes
        /\ \A E \in (D + 1)..now.day : ~(IsWeekday(E) /\ At(E, h, m) <= NowMinutes)

\* The nearest Mon-Fri date strictly before d.
NearestWeekdayBefore(d) ==
    CHOOSE D \in (d - 7)..(d - 1) :
        IsWeekday(D) /\ \A E \in (D + 1)..(d - 1) : ~IsWeekday(E)

\* C1 (as claimed): the `today` of get_trading_days_bid is the most recent
\* Mon-Fri date D with D 09:15 at or before now.
C1_TodayIsLastOpenedDay ==
    bidOut # <<>> => BidToday = LastWeekdayReached(9, 15)

\* C2: no resolver names a reference point in the future: today 09:15 and
\* prev_day 15:30 of get_trading_days_bid (and of bid.py get_trading_days) and
\* the date 15:30 of get_trading_days_pricegap are all at or before now.
C2_NoFutureReference ==
    /\ bidOut # <<>> =>
          At(BidToday, 9, 15) <= NowMinutes /\ At(BidPrev, 15, 30) <= NowMinutes
    /\ pgOut # <<>> => At(PgDate, 15, 30) <= NowMinutes
    /\ bidPyOut # <<>> =>
          At(BidPyToday, 9, 15) <= NowMinutes /\ At(BidPyPrev, 15, 30) <= NowMinutes

\* C2 witness: all three resolvers ran on a Monday before 09:15, where the
\* rollback has to cross the weekend.
C2_Witness ==
    /\ bidOut # <<>> /\ pgOut # <<>> /\ bidPyOut # <<>>
    /\ Weekday(now.day) = 0 /\ now.hour = 9 /\ now.minute = 14

\* C3: every date returned by get_trading_days_bid and get_trading_days_pricegap
\* is a Monday..Friday, whatever the day and time of now.
C3_WeekdaysOnly ==
    /\ bidOut # <<>> => IsWeekday(BidPrev) /\ IsWeekday(BidToday)
    /\ pgOut # <<>> => IsWeekday(PgDate)

\* C3 witness: both resolvers ran on a Sunday.
C3_Witness ==
    bidOut # <<>> /\ pgOut # <<>> /\ Weekday(now.day) = 6

\* C4: prev_day is strictly before today and is the nearest weekday before it:
\* the distance is 1 day, or 3 days exactly when today is a Monday.
C4_PrevIsNearestWeekday ==
    /\ bidOut # <<>> =>
          /\ BidPrev < BidToday
          /\ BidPrev = NearestWeekdayBefore(BidToday)
          /\ BidToday - BidPrev = (IF Weekday(BidToday) = 0 THEN 3 ELSE 1)
    /\ bidPyOut # <<>> =>
          /\ BidPyPrev < BidPyToday
          /\ BidPyPrev = NearestWeekdayBefore(BidPyToday)
          /\ BidPyToday - BidPyPrev = (IF Weekday(BidPyToday) = 0 THEN 3 ELSE 1)

\* C4 witness: the resolved today is a Monday, so prev_day is the Friday before.
C4_Witness ==
    bidOut # <<>> /\ bidPyOut # <<>> /\ Weekday(BidToday) = 0 /\ BidToday - BidPrev = 3

\* C5: market_open is true exactly when now is on a Mon-Fri date at or after
\* 09:15; then today is now's own date, otherwise today is strictly earlier.
C5_MarketOpen ==
    bidOut # <<>> =>
        /\ bidOut[3] <=> (IsWeekday(now.day) /\ At(now.day, 9, 15) <= NowMinutes)
        /\ bidOut[3] => bidOut[2] = Strftime(now.day)
        /\ ~bidOut[3] => BidToday < now.day

\* C5 witness: the call at exactly 09:15 on a weekday reports the market open.
C5_Witness ==
    bidOut # <<>> /\ bidOut[3] /\ now.hour = 9 /\ now.minute = 15

\* C6: data_available is true exactly when now is on a Mon-Fri date at or after
\* 15:30, and then the date is now's date; otherwise the date is the nearest
\* Mon-Fri date strictly before now's date.
C6_Pricegap ==
    pgOut # <<>> =>
        /\ pgOut[2] <=> (IsWeekday(now.day) /\ At(now.day, 15, 30) <= NowMinutes)
        /\ pgOut[2] => pgOut[1] = Strftime(now.day)
        /\ ~pgOut[2] => PgDate = NearestWeekdayBefore(now.day)

\* C6 witness: on a Saturday the date is the Friday just before (no extra step).
C6_Witness ==
    pgOut # <<>> /\ ~pgOut[2] /\ Weekday(now.day) = 5 /\ PgDate = now.day - 1


(***************************************************************************)
(* Vocabulary of the extraction claims                                     *)
(***************************************************************************)
\* A candle with a parseable timestamp and all six fields.
IsWellFormed(c) == Len(c) = 6 /\ c[1] # <<>>

MinuteOfDay(t) == t[1] * 60 + t[2]

FeedIsWellFormed ==
    resp # <<>> /\ \A i \in 1..Len(resp[1]) : IsWellFormed(resp[1][i])

\* C7: on a feed of well-formed candles, in any order, get_330_ltp returns the
\* close of a candle with the greatest time among those at or before 15:29,
\* never one at 15:30 or later, and None when there is no such candle.
C7_Ltp330 ==
    (ltpOut # <<>> /\ FeedIsWellFormed) =>
        LET cs == resp[1]
            E == {i \in 1..Len(cs) : MinuteOfDay(cs[i][1]) <= 15 * 60 + 29}
        IN  IF E = {} THEN ltpOut[1] = None
            ELSE \E i \in E :
                    /\ \A j \in E : MinuteOfDay(cs[j][1]) <= MinuteOfDay(cs[i][1])
                    /\ ltpOut[1] = <<cs[i][5]>>

\* C7 witness: the feed 15:29, 15:31, 15:25 (unordered) yields the 15:29 close.
C7_Witness ==
    /\ ltpOut # <<>> /\ FeedIsWellFormed /\ Len(resp[1]) = 3
    /\ resp[1][1][1] = <<15, 29>> /\ resp[1][2][1] = <<15, 31>>
    /\ resp[1][3][1] = <<15, 25>>
    /\ ltpOut[1] = <<resp[1][1][5]>>

\* C8 (as claimed): get_330_ltp and get_915_open return what they return on the
\* feed with the malformed candles removed.
C8_MalformedSkipped ==
    resp # <<>> =>
        LET clean == <<SelectSeq(resp[1], IsWellFormed)>>
        IN  /\ ltpOut # <<>> => ltpOut[1] = get_330_ltp(clean)
            /\ openOut # <<>> => openOut[1] = get_915_open(clean)


(***************************************************************************)
(* Vocabulary of the signal claims                                         *)
(***************************************************************************)
HasGap(o) == o.gap # None /\ o.gap_pct # None /\ o.direction # None

HasNoGap(o) == o.gap = None /\ o.gap_pct = None /\ o.direction = None

IsPresent(x) == x # <<>>

IsPresentNonZero(x) == x # <<>> /\ x[1] # 0

\* C9 (as claimed): a signal carries gap, gap_pct and direction exactly when both
\* of its price points are present, otherwise none of the three, and nothing is
\* raised.
C9_GapIffBothPresent ==
    /\ ~raised
    /\ bid_data # <<>> =>
          IF IsPresent(px.ltp_330_prev) /\ IsPresent(px.open_915_today)
          THEN HasGap(bid_data[1]) ELSE HasNoGap(bid_data[1])
    /\ pricegap_data # <<>> =>
          IF IsPresent(px.ltp_330) /\ IsPresent(px.daily_close)
          THEN HasGap(pricegap_data[1]) ELSE HasNoGap(pricegap_data[1])

\* C9 (amended): a signal carries gap, gap_pct and direction exactly when both of
\* its price points are present and not 0; when either is absent or 0 all three
\* are unavailable; nothing is raised.  Holds for server.py (BID, PriceGap),
\* signal.py main (both sections) and bid.py main.
C9_GapIffBothNonZero ==
    /\ ~raised
    /\ bid_data # <<>> =>
          IF IsPresentNonZero(px.ltp_330_prev) /\ IsPresentNonZero(px.open_915_today)
          THEN HasGap(bid_data[1]) ELSE HasNoGap(bid_data[1])
    /\ pricegap_data # <<>> =>
          IF IsPresentNonZero(px.ltp_330) /\ IsPresentNonZero(px.daily_close)
          THEN HasGap(pricegap_data[1]) ELSE HasNoGap(pricegap_data[1])
    /\ sigBid # <<>> =>
          IF IsPresentNonZero(px.ltp_330_prev) /\ IsPresentNonZero(px.open_915_today)
          THEN HasGap(sigBid[1]) ELSE HasNoGap(sigBid[1])
    /\ sigPricegap # <<>> =>
          IF IsPresentNonZero(px.ltp_330) /\ IsPresentNonZero(px.daily_close)
          THEN HasGap(sigPricegap[1]) ELSE HasNoGap(sigPricegap[1])
    /\ bidMain # <<>> =>
          IF IsPresentNonZero(px.ltp_330_prev) /\ IsPresentNonZero(px.open_915_today)
          THEN HasGap(bidMain[1]) ELSE HasNoGap(bidMain[1])

\* C9 witness: the 9:15 open is present but 0, so BID is unavailable, while
\* PriceGap, with both points present and not 0, carries its gap.
C9_Witness ==
    /\ bid_data # <<>> /\ pricegap_data # <<>>
    /\ px.ltp_330_prev # None /\ px.open_915_today = <<0>>
    /\ HasNoGap(bid_data[1]) /\ HasGap(pricegap_data[1])

\* The reported gap g is later - earlier rounded to two decimals, and the
\* direction d is `up` iff g > 0, `down` iff g < 0, `flat` iff g = 0.
SignBased(o, earlier, later, up, down, flat) ==
    o.gap # None =>
        /\ o.gap[1] % 10 = 0
        /\ 2 * (o.gap[1] - (later[1] - earlier[1])) \in -10..10
        /\ o.direction \in {<<up>>, <<down>>, <<flat>>}
        /\ o.direction = <<up>> <=> o.gap[1] > 0
        /\ o.direction = <<down>> <=> o.gap[1] < 0
        /\ o.direction = <<flat>> <=> o.gap[1] = 0

\* C10: whenever a gap is computed (BID: 9:15 open minus previous 3:30 LTP;
\* PriceGap: 3:30 LTP minus daily close), exactly one direction is reported, by
\* the sign of the reported gap: Up iff gap > 0, Down iff gap < 0, Flat iff gap = 0.
C10_DirectionBySign ==
    /\ bid_data # <<>> =>
          SignBased(bid_data[1], px.ltp_330_prev, px.open_915_today, "up", "down", "flat")
    /\ pricegap_data # <<>> =>
          SignBased(pricegap_data[1], px.daily_close, px.ltp_330, "up", "down", "flat")
    /\ sigBid # <<>> =>
          SignBased(sigBid[1], px.ltp_330_prev, px.open_915_today, "Up", "Down", "Flat")
    /\ sigPricegap # <<>> =>
          SignBased(sigPricegap[1], px.daily_close, px.ltp_330, "Up", "Down", "Flat")
    /\ bidMain # <<>> =>
          SignBased(bidMain[1], px.ltp_330_prev, px.open_915_today,
                    "Gap Up", "Gap Down", "Flat")

\* C10 witness: BID with equal price points is flat with gap 0 while PriceGap,
\* with the LTP below the close, points down.
C10_Witness ==
    /\ bid_data # <<>> /\ pricegap_data # <<>>
    /\ bid_data[1].gap = <<0>> /\ bid_data[1].direction = <<"flat">>
    /\ pricegap_data[1].gap # None /\ pricegap_data[1].gap[1] < 0
    /\ pricegap_data[1].direction = <<"down">>


Abs(x) == IF x < 0 THEN -x ELSE x

\* The reported gap_pct of o (hundredths of a percent) is gap / base * 100
\* rounded to two decimals; with a base of 0 nothing is reported.
PctOfBase(o, base) ==
    /\ (base # None /\ base[1] = 0) => HasNoGap(o)
    /\ o.gap_pct # None =>
          /\ base # None /\ base[1] # 0
          /\ 2 * Abs(o.gap_pct[1] * base[1] - o.gap[1] * 10000) <= Abs(base[1])

\* C11: for every base other than 0 the reported gap_pct equals
\* round(gap / base * 100, 2), base being the earlier price point; with a base
\* of 0 the signal is unavailable and no division by zero is raised.
C11_GapPct ==
    /\ ~raised
    /\ bid_data # <<>> => PctOfBase(bid_data[1], px.ltp_330_prev)
    /\ pricegap_data # <<>> => PctOfBase(pricegap_data[1], px.daily_close)
    /\ sigBid # <<>> => PctOfBase(sigBid[1], px.ltp_330_prev)
    /\ sigPricegap # <<>> => PctOfBase(sigPricegap[1], px.daily_close)
    /\ bidMain # <<>> => PctOfBase(bidMain[1], px.ltp_330_prev)

\* C11 witness: LTP 24800.00 and open 24850.00 give gap +50.00, +0.20 %, up.
C11_Witness ==
    /\ bid_data # <<>>
    /\ px.ltp_330_prev = <<24800000>> /\ px.open_915_today = <<24850000>>
    /\ bid_data[1].gap = <<50000>> /\ bid_data[1].gap_pct = <<20>>
    /\ bid_data[1].direction = <<"up">>


(***************************************************************************)
(* Vocabulary of the expiry claims                                         *)
(***************************************************************************)
\* The expiry strings the provider named for an instrument that are dates.
ExpiryDatesOf(inst) ==
    IF expiryResp[inst] = <<>> THEN {}
    ELSE {e \in expiryResp[inst][1] :
            e[2] \in 1..12 /\ e[3] \in 1..DaysInMonth(e[1], e[2])}

WindowTop(inst) == IF inst = "NIFTY" THEN 2 ELSE 1

\* The instrument's expiries whose days-to-expiry from today lie in its window.
InWindowOf(inst) ==
    {e \in ExpiryDatesOf(inst) : Strptime(e) - now.day \in 0..WindowTop(inst)}

Earliest(S) == CHOOSE e \in S : \A f \in S : Strptime(e) <= Strptime(f)

\* C12: the selector takes, for the instrument it returns, the first expiry in
\* ascending order whose DTE = expiry - today lies in [0,2] (NIFTY) or [0,1]
\* (SENSEX); the returned DTE lies in that window, and an instrument with no
\* expiry in its window is never returned.
C12_FirstInWindow ==
    sel # <<>> =>
        \A inst \in INSTRUMENTS :
            sel[1][1] = <<inst>> =>
                /\ InWindowOf(inst) # {}
                /\ sel[1][2] = <<Earliest(InWindowOf(inst))>>
                /\ sel[1][3] = <<Strptime(sel[1][2][1]) - now.day>>
                /\ sel[1][3][1] \in 0..WindowTop(inst)

\* C12 witness: SENSEX is returned at DTE 1 although its list also names an
\* expiry that is already past, and NIFTY's only expiry is 3 days away.
C12_Witness ==
    /\ sel # <<>> /\ sel[1][1] = <<"SENSEX">> /\ sel[1][3] = <<1>>
    /\ expiryResp["SENSEX"] # <<>> /\ <<2024, 2, 22>> \in expiryResp["SENSEX"][1]
    /\ expiryResp["NIFTY"] # <<>> /\ expiryResp["NIFTY"][1] # {}
    /\ InWindowOf("NIFTY") = {}

\* C13: with a valid DTE on both sides the smaller one wins and NIFTY wins a tie;
\* with one valid DTE that instrument is returned; with none, no instrument.
C13_TieBreak ==
    sel # <<>> =>
        LET hasN == InWindowOf("NIFTY") # {}
            hasS == InWindowOf("SENSEX") # {}
            dN == Strptime(Earliest(InWindowOf("NIFTY"))) - now.day
            dS == Strptime(Earliest(InWindowOf("SENSEX"))) - now.day
        IN  /\ (hasN /\ hasS /\ dN <= dS) => sel[1][1] = <<"NIFTY">> /\ sel[1][3] = <<dN>>
            /\ (hasN /\ hasS /\ dS < dN) => sel[1][1] = <<"SENSEX">> /\ sel[1][3] = <<dS>>
            /\ (hasN /\ ~hasS) => sel[1][1] = <<"NIFTY">> /\ sel[1][3] = <<dN>>
            /\ (~hasN /\ hasS) => sel[1][1] = <<"SENSEX">> /\ sel[1][3] = <<dS>>
            /\ (~hasN /\ ~hasS) => sel[1] = <<None, None, None>>

\* C13 witness: NIFTY and SENSEX both at DTE 1, NIFTY is returned.
C13_Witness ==
    /\ sel # <<>> /\ sel[1][1] = <<"NIFTY">> /\ sel[1][3] = <<1>>
    /\ InWindowOf("SENSEX") # {}
    /\ Strptime(Earliest(InWindowOf("SENSEX"))) - now.day = 1

\* The next Mon-Fri date strictly after today's date.
NextWeekday == CHOOSE d \in (now.day + 1)..(now.day + 3) :
                   Weekday(d) \in 0..4 /\ \A e \in (now.day + 1)..(d - 1) : Weekday(e) \in {5, 6}

\* C19 (as claimed): get_dte_for_instrument_tomorrow returns the first expiry on
\* or after the next weekday after today, with dte = expiry - that day, the
\* smallest non-negative difference over the list, and absent when there is none.
C19_DteTomorrow ==
    \A inst \in INSTRUMENTS :
        dteTomorrow[inst] # <<>> =>
            LET F == {e \in ExpiryDatesOf(inst) : Strptime(e) >= NextWeekday}
                r == dteTomorrow[inst][1]
            IN  IF F = {} THEN r = <<None, None, None>>
                ELSE /\ r[2] = <<Earliest(F)>>
                     /\ r[1] = <<Strptime(Earliest(F)) - NextWeekday>>
                     /\ r[3] = <<Strftime(NextWeekday)>>


\* The percentage table as the claim states it, in hundredths of a percent.
ClaimedPct(d) ==
    CASE d = 0 -> 54
      [] d = 1 -> 81
      [] d = 2 -> 105
      [] d = 3 -> 120
      [] d = 4 -> 138
      [] OTHER -> 54

\* C17: the percentage of a coverage entry is the table value for its DTE and
\* 0.54 outside 0..4, and its premium is spot * percent / 100 rounded to two
\* decimals: the whole number of hundredths within half a hundredth of the
\* exact value (spot 25000, DTE 2 -> 1.05 and 262.5).
C17_CoveragePremium ==
    (covOut # <<>> /\ covOut[1] # <<>>) =>
        LET e == covOut[1][1]
        IN  /\ e.dte = covIn.inst_dte[1]
            /\ e.spot = covIn.spot[1]
            /\ e.pct = ClaimedPct(e.dte)
            /\ 2 * Abs(e.premium * 10000 - e.spot * e.pct) <= 10000
            /\ (e.spot = 2500000 /\ e.dte = 2) => (e.pct = 105 /\ e.premium = 26250)
            /\ e.dte = 9 => e.pct = 54

\* C17 witness: the entry for spot 25000 at DTE 4.
C17_Witness ==
    /\ covOut # <<>> /\ covOut[1] # <<>>
    /\ covOut[1][1].spot = 2500000
    /\ covOut[1][1].dte = 4
    /\ covOut[1][1].premium = 34500


(***************************************************************************)
(* Vocabulary of the entry-point claims                                    *)
(***************************************************************************)
Done == pc = <<"done">>

\* An entry point that returned its data rather than an error.
Returned(e) == entry = <<e>> /\ Done /\ result[1].error = None

Data == result[1].data[1]

\* Whether list number k of the selection (1 NIFTY, 2 SENSEX) holds a date whose
\* days-to-expiry from today lie in 0..top.
ListInWindow(k, top) ==
    \E i \in 1..Len(loc.lists[k]) :
        LET e == loc.lists[k][i]
        IN  /\ e[2] \in 1..12 /\ e[3] \in 1..DaysInMonth(e[1], e[2])
            /\ Strptime(e) - now.day \in 0..top

\* C14: when neither instrument has an in-window expiry, the entry point has
\* returned only the "no valid expiry" failure and the two expiry-list calls are
\* the only provider calls it ever made.
C14_NoValidExpiryTerminal ==
    (loc.lists # <<>> /\ ~ListInWindow(1, 2) /\ ~ListInWindow(2, 1)) =>
        /\ Done
        /\ result = <<[error |-> <<"No valid expiry found">>, data |-> None]>>
        /\ calls = <<"expiry", "expiry">>

\* C14 witness: get_all_signal_data ended on two non-empty expiry lists, none
\* of them in its window.
C14_Witness ==
    /\ entry = <<"server">> /\ Done
    /\ loc.lists # <<>> /\ loc.lists[1] # <<>> /\ loc.lists[2] # <<>>
    /\ result[1].error = <<"No valid expiry found">>
    /\ calls = <<"expiry", "expiry">>

\* C15: when load_access_token yields no token (None or an empty string), every
\* entry point makes no provider call at all and ends reporting the missing
\* token.
C15_MissingCredentialTerminal ==
    (token # <<>> /\ (token[1] = None \/ token[1] = <<"">>)) =>
        /\ calls = <<>>
        /\ pc \in {<<"token">>, <<"done">>}
        /\ Done => result = <<[error |-> <<"No access token found">>, data |-> None]>>

\* C15 witness: bid.py main ended on an empty token without a call.
C15_Witness ==
    /\ entry = <<"bid">> /\ Done /\ token = <<<<"">>>>
    /\ result[1].error = <<"No access token found">> /\ calls = <<>>

\* The bundle holds all four signals and each one is what its own provider
\* results determine, whatever the other calls returned.
BundleWhole ==
    /\ {"bid", "pricegap", "sixthsense", "coverage"} \subseteq DOMAIN Data
    /\ Data.bid = BidData(Data.bid.ltp_330, Data.bid.open_915, get_trading_days_bid(now))
    /\ Data.pricegap = PricegapData(Data.pricegap.ltp_330, Data.pricegap.daily_close,
                                    get_trading_days_pricegap(now))
    /\ DOMAIN Data.sixthsense = 1..Len(Data.sixthsense)
    /\ \A i \in 1..Len(Data.coverage.instruments) :
           LET e == Data.coverage.instruments[i]
           IN  e = CoverageRow(e.name, e.dte, e.spot)

\* C16: with a token and a selected instrument, get_all_signal_data always
\* completes with a bundle, whichever provider calls fail, and the bundle holds
\* bid, pricegap, sixthsense and coverage, each determined by its own calls.
C16_DegradesToAbsent ==
    /\ [](Returned("server") => BundleWhole)
    /\ (entry = <<"server">> /\ pc = <<"bid">>) ~> Returned("server")

\* C16 witness: both BID candle calls and the sixth-sense call failed, and the
\* bundle still carries the PriceGap gap and a coverage entry.
C16_Witness ==
    /\ Returned("server")
    /\ Data.bid.ltp_330 = None /\ Data.bid.open_915 = None
    /\ Data.sixthsense = <<>>
    /\ Data.pricegap.gap # None
    /\ Len(Data.coverage.instruments) = 1

\* The coverage entries of pass k of the loop, as the claim states them.
ClaimedEntries(k) ==
    IF loc.seen[k].dte # None /\ loc.seen[k].spot # None
    THEN <<loc.seen[k].name>> ELSE <<>>

\* C18 (as claimed): an instrument is in the coverage list if and only if its
\* DTE-for-tomorrow and its spot price are both available, whatever the other
\* instrument's and the selection's; the order is NIFTY, SENSEX.
C18_CoverageIffAvailable ==
    (Returned("server") \/ Returned("signal")) =>
        /\ Len(loc.seen) = 2
        /\ loc.seen[1].name = "NIFTY" /\ loc.seen[2].name = "SENSEX"
        /\ [i \in 1..Len(Data.coverage.instruments) |-> Data.coverage.instruments[i].name]
               = ClaimedEntries(1) \o ClaimedEntries(2)

\* The selection's days to expiry, from the bundle's own expiry date.
SelectionDte == Strptime(Data.expiry_date) - now.day

\* C20 (as claimed): the bundle's dte is the selection's DTE, expiry_date - today.
C20_DteIsSelectionDte ==
    (Returned("server") \/ Returned("signal")) =>
        Data.dte = SelectionDte /\ Data.dte >= 0

\* C20 (amended): the bundle's dte is the selection's DTE less one day, never
\* below 0: the days to expiry as of tomorrow.
C20_DteIsForTomorrow ==
    (Returned("server") \/ Returned("signal")) =>
        /\ Data.dte = (IF SelectionDte >= 1 THEN SelectionDte - 1 ELSE 0)
        /\ Data.dte >= 0

\* C20 witness: NIFTY selected two days before its expiry, bundle dte 1.
C20_Witness ==
    /\ Returned("server")
    /\ Data.instrument = "NIFTY" /\ SelectionDte = 2 /\ Data.dte = 1


(***************************************************************************)
(* The resolvers over time and across the entry points                     *)
(***************************************************************************)
\* The dates the resolvers return at the clock value n, as day numbers.
BidTodayAt(n) == Strptime(get_trading_days_bid(n)[2])
BidPrevAt(n) == Strptime(get_trading_days_bid(n)[1])
PgDateAt(n) == Strptime(get_trading_days_pricegap(n)[1])

\* C21 (as claimed): when the clock advances, the today and prev_day of
\* get_trading_days_bid and the date of get_trading_days_pricegap never move
\* backward (stated for each step of the clock, which gives it for all
\* now1 <= now2).
C21_DatesNeverMoveBack ==
    [][/\ BidTodayAt(now) <= BidTodayAt(now')
       /\ BidPrevAt(now) <= BidPrevAt(now')
       /\ PgDateAt(now) <= PgDateAt(now')]_vars

\* C22 (as claimed): for the same now, bid.py get_trading_days returns the
\* (prev_day, today) of get_trading_days_bid.
C22_ResolversAgree ==
    (bidOut # <<>> /\ bidPyOut # <<>>) =>
        bidPyOut = <<bidOut[1], bidOut[2]>>

=============================================================================
